---- MODULE Spec2Model ----
(***************************************************************************)
(* A model of fenwick_tree<T> (src/fenwick_tree.hpp).                      *)
(*                                                                         *)
(* The buffer `tree` is a std::vector<T>; it is modelled as a function     *)
(* with domain 0..n-1 so that slot numbers are the ones of the source.     *)
(* T is a narrow signed integer type of TBits bits: `a += b` is computed   *)
(* in int and converted back to T, which reduces modulo 2^TBits; the       *)
(* properties about sums are stated in this arithmetic.                    *)
(* signed_type is modelled with IdxBits bits (two's complement) for the    *)
(* bit operations &, | and unary minus.                                    *)
(*                                                                         *)
(* construct, sum(), sum(i), sum(i, j) and clear are single actions whose  *)
(* results are computed by operators that follow the loops of the source.  *)
(* update is modelled one loop step at a time.                             *)
(***************************************************************************)
EXTENDS Integers, FiniteSets, Sequences, TLC

VARIABLES tree,      \* fenwick_tree::tree of the structure under test
          other,     \* fenwick_tree::tree of a second structure (operator==)
          S,         \* ghost: the sequence last handed to construct on `tree`
          hist,      \* ghost: what last changed `tree`: "default", "constructed",
                     \*        "updated" or "cleared"
          otherS,    \* ghost: the sequence last handed to construct on `other`
          otherHist, \* ghost: what last changed `other`
          nupd,      \* number of update calls that passed the checks since construct
          pc,        \* "idle" (between calls), "done" (a call has just finished),
                     \* "upd_j", "upd_i" (at the condition of update's first and
                     \* second loop), "upd_j_inc", "upd_i_inc" (at their increment)
                     \* or "aborted"
          call,      \* the latest call on `tree`: [op, i, j, v]
          ret,       \* what the latest call returned or threw: [kind, val]
          frame,     \* update's locals i, j, value while its loops run
          pre,       \* the buffer as it was when the latest sum or update call started
          touched    \* slot numbers the latest update applied tree[...] to

vars == <<tree, other, S, hist, otherS, otherHist, nupd, pc, call, ret,
          frame, pre, touched>>

----------------------------------------------------------------------------
(* Bounds *)

MaxN == 4          \* longest sequence handed to construct
MaxVal == 1        \* elements and deltas are -1 or MaxVal
MaxUpdates == 1    \* update calls entering the loops between two constructs
EqMaxN == 3        \* longest sequence when two structures are compared
TBits == 4         \* width of T
IdxBits == 8       \* width of signed_type

Vals == {0 - 1, MaxVal}
Idx == (0 - 1)..MaxN
Seqs == UNION {[0..(n - 1) -> Vals] : n \in 0..MaxN}
EqSeqs == UNION {[0..(n - 1) -> Vals] : n \in 0..EqMaxN}
Empty == [k \in {} |-> 0]

----------------------------------------------------------------------------
(* Arithmetic of T and of signed_type *)

TMod == 2 ^ TBits
IdxMod == 2 ^ IdxBits

\* conversion of an int result back to T
wrap(x) == ((x + TMod \div 2) % TMod) - TMod \div 2

Add(a, b) == wrap(a + b)

RECURSIVE BitAnd(_, _)
BitAnd(a, b) ==
    IF a = 0 \/ b = 0 THEN 0
    ELSE (a % 2) * (b % 2) + 2 * BitAnd(a \div 2, b \div 2)

RECURSIVE BitOr(_, _)
BitOr(a, b) ==
    IF a = 0 THEN b
    ELSE IF b = 0 THEN a
    ELSE (IF a % 2 = 1 \/ b % 2 = 1 THEN 1 ELSE 0) + 2 * BitOr(a \div 2, b \div 2)

\* the bit pattern of -x
IdxNeg(x) == (IdxMod - x) % IdxMod

\* x & (-x)
AndNeg(x) == BitAnd(x, IdxNeg(x))

----------------------------------------------------------------------------
(* The structure's operations as functions of the buffer *)

size(t) == Cardinality(DOMAIN t)

Value(x) == [kind |-> "value", val |-> x]
Bool(b) == [kind |-> "bool", val |-> b]
Void == [kind |-> "void", val |-> 0]
OutOfRange == [kind |-> "out_of_range", val |-> 0]

\* the inner loop of construct: tree.at(index) += *it along index | (index + 1)
RECURSIVE constructWalk(_, _, _)

\* variant: the walk steps to index + 1 instead of index | (index + 1)
RECURSIVE constructWalkLinear(_, _, _)
constructWalkLinear(t, index, v) ==
    IF index < size(t)
    THEN constructWalkLinear([t EXCEPT ![index] = Add(@, v)], index + 1, v)
    ELSE t

constructWalk(t, index, v) ==
    IF index < size(t)
    THEN constructWalk([t EXCEPT ![index] = Add(@, v)], BitOr(index, index + 1), v)
    ELSE t

\* the outer loop of construct, from element number k on
RECURSIVE constructFrom(_, _, _)
constructFrom(t, seq, k) ==
    IF k < size(seq)
    THEN constructFrom(constructWalk(t, k, seq[k]), seq, k + 1)
    ELSE t

\* variant: resize(n, v), which keeps the slots t already has
assignKeep(t, n, v) == [k \in 0..(n - 1) |-> IF k \in DOMAIN t THEN t[k] ELSE v]

\* std::vector::assign(n, v): whatever t held is replaced by n copies of v
assign(t, n, v) == [k \in 0..(n - 1) |-> v]

\* tree.assign(distance(begin, end), 0) followed by the loops
construct(t, seq) == constructFrom(assign(t, size(seq), 0), seq, 0)

\* variant: clear() zeroes the slots and keeps the size
clearKeepSize(t) == [k \in DOMAIN t |-> 0]

\* std::vector::clear()
clear(t) == [k \in {} |-> 0]

\* the loop of sum(i)
RECURSIVE sumWalk(_, _, _)
sumWalk(t, i, result) ==
    IF i >= 0
    THEN sumWalk(t, BitAnd(i, i + 1) - 1, Add(result, t[i]))
    ELSE result

\* variant: the check i < 0 is missing
sum_iNoLower(t, i) ==
    IF i >= size(t) THEN OutOfRange
    ELSE IF size(t) = 0 THEN Value(0)
    ELSE Value(sumWalk(t, i, 0))

sum_i(t, i) ==
    IF i < 0 \/ i >= size(t) THEN OutOfRange
    ELSE IF size(t) = 0 THEN Value(0)
    ELSE Value(sumWalk(t, i, 0))

sum(t) == IF size(t) = 0 THEN Value(0) ELSE sum_i(t, size(t) - 1)

\* variant: --i is missing, the lower term is sum(i)
sum_ijNoDecrement(t, i, j) ==
    IF i > j THEN OutOfRange
    ELSE LET upper == sum_i(t, j) IN
         IF upper.kind = "out_of_range" THEN OutOfRange
         ELSE IF i < 0 THEN upper
         ELSE LET lower == sum_i(t, i) IN
              IF lower.kind = "out_of_range" THEN OutOfRange
              ELSE Value(wrap(upper.val - lower.val))

\* variant: the early return for i < 0 is missing, sum(i - 1) is always called
sum_ijNoEarlyReturn(t, i, j) ==
    IF i > j THEN OutOfRange
    ELSE LET upper == sum_i(t, j) IN
         IF upper.kind = "out_of_range" THEN OutOfRange
         ELSE LET lower == sum_i(t, i - 1) IN
              IF lower.kind = "out_of_range" THEN OutOfRange
              ELSE Value(wrap(upper.val - lower.val))

sum_ij(t, i, j) ==
    IF i > j THEN OutOfRange
    ELSE LET upper == sum_i(t, j) IN
         IF upper.kind = "out_of_range" THEN OutOfRange
         ELSE IF i - 1 < 0 THEN upper
         ELSE LET lower == sum_i(t, i - 1) IN
              IF lower.kind = "out_of_range" THEN OutOfRange
              ELSE Value(wrap(upper.val - lower.val))

\* variant: the upper check is j > size() instead of j >= size()
updateCheckOffByOne(t, i, j) ==
    IF i > j THEN "throw"
    ELSE IF i < 0 \/ j + 1 < 0 \/ i >= size(t) \/ j + 1 > size(t) THEN "false"
    ELSE "walk"

\* the checks of update before its loops: "throw", "false" or "walk"
updateCheck(t, i, j) ==
    IF i > j THEN "throw"
    ELSE IF i < 0 \/ j + 1 < 0 \/ i >= size(t) \/ j + 1 >= size(t) THEN "false"
    ELSE "walk"

\* std::vector operator==
opEq(a, b) == size(a) = size(b) /\ \A k \in 0..(size(a) - 1) : a[k] = b[k]

\* std::vector operator!=
opNeq(a, b) == ~opEq(a, b)

----------------------------------------------------------------------------
(* Initial state: two default-constructed structures *)

NoCall == [op |-> "none", i |-> 0, j |-> 0, v |-> 0]
NoFrame == [i |-> 0, j |-> 0, value |-> 0]

Init ==
    /\ tree = Empty
    /\ other = Empty
    /\ S = Empty
    /\ hist = "default"
    /\ otherS = Empty
    /\ otherHist = "default"
    /\ nupd = 0
    /\ pc = "idle"
    /\ call = NoCall
    /\ ret = Void
    /\ frame = NoFrame
    /\ pre = Empty
    /\ touched = {}

----------------------------------------------------------------------------
(* Calls on `tree`.  A call starts at pc = "idle"; when it has returned or *)
(* thrown, pc = "done" and call, ret, pre describe it.                     *)

ConstructFrom(seqs) ==
    /\ pc = "idle"
    /\ \E seq \in seqs :
        /\ tree' = construct(tree, seq)
        /\ S' = seq
    /\ hist' = "constructed"
    /\ nupd' = 0
    /\ call' = [NoCall EXCEPT !.op = "construct"]
    /\ ret' = Void
    /\ pc' = "done"
    /\ UNCHANGED <<other, otherS, otherHist, frame, pre, touched>>

Construct == ConstructFrom(Seqs)

Clear ==
    /\ pc = "idle"
    /\ tree' = clear(tree)
    /\ S' = Empty
    /\ hist' = "cleared"
    /\ nupd' = 0
    /\ call' = [NoCall EXCEPT !.op = "clear"]
    /\ ret' = Void
    /\ pc' = "done"
    /\ UNCHANGED <<other, otherS, otherHist, frame, pre, touched>>

Sum ==
    /\ pc = "idle"
    /\ call' = [NoCall EXCEPT !.op = "sum"]
    /\ ret' = sum(tree)
    /\ pre' = tree
    /\ pc' = "done"
    /\ UNCHANGED <<tree, other, S, hist, otherS, otherHist, nupd, frame, touched>>

SumI ==
    /\ pc = "idle"
    /\ \E i \in Idx :
        /\ call' = [NoCall EXCEPT !.op = "sum_i", !.i = i]
        /\ ret' = sum_i(tree, i)
    /\ pre' = tree
    /\ pc' = "done"
    /\ UNCHANGED <<tree, other, S, hist, otherS, otherHist, nupd, frame, touched>>

SumIJ ==
    /\ pc = "idle"
    /\ \E i \in Idx, j \in Idx :
        /\ call' = [NoCall EXCEPT !.op = "sum_ij", !.i = i, !.j = j]
        /\ ret' = sum_ij(tree, i, j)
    /\ pre' = tree
    /\ pc' = "done"
    /\ UNCHANGED <<tree, other, S, hist, otherS, otherHist, nupd, frame, touched>>

\* update(i, j, value) with i > j: throws
UpdateThrow ==
    /\ pc = "idle"
    /\ \E i \in Idx, j \in Idx, v \in Vals :
        /\ updateCheck(tree, i, j) = "throw"
        /\ call' = [op |-> "update", i |-> i, j |-> j, v |-> v]
    /\ ret' = OutOfRange
    /\ pre' = tree
    /\ pc' = "done"
    /\ UNCHANGED <<tree, other, S, hist, otherS, otherHist, nupd, frame, touched>>

\* update(i, j, value) failing the bounds check after ++j: returns false
UpdateFalse ==
    /\ pc = "idle"
    /\ \E i \in Idx, j \in Idx, v \in Vals :
        /\ updateCheck(tree, i, j) = "false"
        /\ call' = [op |-> "update", i |-> i, j |-> j, v |-> v]
    /\ ret' = Bool(FALSE)
    /\ pre' = tree
    /\ pc' = "done"
    /\ UNCHANGED <<tree, other, S, hist, otherS, otherHist, nupd, frame, touched>>

\* update(i, j, value) passing the checks: ++j is done, the first loop is next
UpdateEnter ==
    /\ pc = "idle"
    /\ nupd < MaxUpdates
    /\ \E i \in Idx, j \in Idx, v \in Vals :
        /\ updateCheck(tree, i, j) = "walk"
        /\ call' = [op |-> "update", i |-> i, j |-> j, v |-> v]
        /\ frame' = [i |-> i, j |-> j + 1, value |-> v]
    /\ pc' = "upd_j"
    /\ nupd' = nupd + 1
    /\ hist' = "updated"
    /\ ret' = Void
    /\ pre' = tree
    /\ UNCHANGED <<tree, other, S, otherS, otherHist, touched>>

\* for (; j <= size(); j += j & (-j)): the condition holds and tree[j] += -value
\* is done with j inside the buffer
UpdateWalkJ ==
    /\ pc = "upd_j"
    /\ frame.j <= size(tree)
    /\ frame.j < size(tree)
    /\ tree' = [tree EXCEPT ![frame.j] = Add(@, 0 - frame.value)]
    /\ touched' = touched \cup {frame.j}
    /\ pc' = "upd_j_inc"
    /\ UNCHANGED <<other, S, hist, otherS, otherHist, nupd, call, ret, pre, frame>>

\* the iteration with j = size(): tree[j] is outside the buffer, which is
\* undefined behaviour; here the store lands past the buffer and the loop goes on
UpdateWalkJPast ==
    /\ pc = "upd_j"
    /\ frame.j <= size(tree)
    /\ frame.j >= size(tree)
    /\ touched' = touched \cup {frame.j}
    /\ pc' = "upd_j_inc"
    /\ UNCHANGED <<tree, other, S, hist, otherS, otherHist, nupd, call, ret, pre, frame>>

\* the same iteration; here the store stops the process
UpdateWalkJAbort ==
    /\ pc = "upd_j"
    /\ frame.j <= size(tree)
    /\ frame.j >= size(tree)
    /\ touched' = touched \cup {frame.j}
    /\ pc' = "aborted"
    /\ UNCHANGED <<tree, other, S, hist, otherS, otherHist, nupd, call, ret, pre, frame>>

\* the increment j += j & (-j) of the first loop
UpdateIncJ ==
    /\ pc = "upd_j_inc"
    /\ frame' = [frame EXCEPT !.j = frame.j + AndNeg(frame.j)]
    /\ pc' = "upd_j"
    /\ UNCHANGED <<tree, other, S, hist, otherS, otherHist, nupd, call, ret, pre, touched>>

\* the first loop ends
UpdateWalkJExit ==
    /\ pc = "upd_j"
    /\ ~(frame.j <= size(tree))
    /\ pc' = "upd_i"
    /\ UNCHANGED <<tree, other, S, hist, otherS, otherHist, nupd, call, ret, pre, frame, touched>>

\* for (; i <= size(); i += i & (-i)): the condition holds and tree[i] += value
\* is done with i inside the buffer
UpdateWalkI ==
    /\ pc = "upd_i"
    /\ frame.i <= size(tree)
    /\ frame.i < size(tree)
    /\ tree' = [tree EXCEPT ![frame.i] = Add(@, frame.value)]
    /\ touched' = touched \cup {frame.i}
    /\ pc' = "upd_i_inc"
    /\ UNCHANGED <<other, S, hist, otherS, otherHist, nupd, call, ret, pre, frame>>

\* the iteration with i = size(), the store landing past the buffer
UpdateWalkIPast ==
    /\ pc = "upd_i"
    /\ frame.i <= size(tree)
    /\ frame.i >= size(tree)
    /\ touched' = touched \cup {frame.i}
    /\ pc' = "upd_i_inc"
    /\ UNCHANGED <<tree, other, S, hist, otherS, otherHist, nupd, call, ret, pre, frame>>

\* the iteration with i = size(), the store stopping the process
UpdateWalkIAbort ==
    /\ pc = "upd_i"
    /\ frame.i <= size(tree)
    /\ frame.i >= size(tree)
    /\ touched' = touched \cup {frame.i}
    /\ pc' = "aborted"
    /\ UNCHANGED <<tree, other, S, hist, otherS, otherHist, nupd, call, ret, pre, frame>>

\* the increment i += i & (-i) of the second loop
UpdateIncI ==
    /\ pc = "upd_i_inc"
    /\ frame' = [frame EXCEPT !.i = frame.i + AndNeg(frame.i)]
    /\ pc' = "upd_i"
    /\ UNCHANGED <<tree, other, S, hist, otherS, otherHist, nupd, call, ret, pre, touched>>

\* the second loop ends: return true
UpdateReturn ==
    /\ pc = "upd_i"
    /\ ~(frame.i <= size(tree))
    /\ pc' = "done"
    /\ ret' = Bool(TRUE)
    /\ UNCHANGED <<tree, other, S, hist, otherS, otherHist, nupd, call, pre, frame, touched>>

\* the caller has used the result and goes on to its next call
Resume ==
    /\ pc = "done"
    /\ pc' = "idle"
    /\ call' = NoCall
    /\ ret' = Void
    /\ frame' = NoFrame
    /\ pre' = Empty
    /\ touched' = {}
    /\ UNCHANGED <<tree, other, S, hist, otherS, otherHist, nupd>>

UpdateStep ==
    \/ UpdateWalkJ
    \/ UpdateWalkJPast
    \/ UpdateWalkJAbort
    \/ UpdateIncJ
    \/ UpdateWalkJExit
    \/ UpdateWalkI
    \/ UpdateWalkIPast
    \/ UpdateWalkIAbort
    \/ UpdateIncI
    \/ UpdateReturn

Next ==
    \/ Construct
    \/ Clear
    \/ Sum
    \/ SumI
    \/ SumIJ
    \/ UpdateThrow
    \/ UpdateFalse
    \/ UpdateEnter
    \/ UpdateWalkJ
    \/ UpdateWalkJPast
    \/ UpdateWalkJAbort
    \/ UpdateIncJ
    \/ UpdateWalkJExit
    \/ UpdateWalkI
    \/ UpdateWalkIPast
    \/ UpdateWalkIAbort
    \/ UpdateIncI
    \/ UpdateReturn
    \/ Resume

Spec == Init /\ [][Next]_vars

\* a running call keeps executing: the loops of update are not suspended
FairSpec == Init /\ [][Next]_vars /\ WF_vars(UpdateStep)

----------------------------------------------------------------------------
(* Two structures, for operator== and operator!= *)

EqConstruct == ConstructFrom(EqSeqs)

OtherConstruct ==
    /\ pc = "idle"
    /\ \E seq \in EqSeqs :
        /\ other' = construct(other, seq)
        /\ otherS' = seq
    /\ otherHist' = "constructed"
    /\ UNCHANGED <<tree, S, hist, nupd, pc, call, ret, frame, pre, touched>>

OtherClear ==
    /\ pc = "idle"
    /\ other' = clear(other)
    /\ otherS' = Empty
    /\ otherHist' = "cleared"
    /\ UNCHANGED <<tree, S, hist, nupd, pc, call, ret, frame, pre, touched>>

NextEq ==
    \/ EqConstruct
    \/ Clear
    \/ Resume
    \/ OtherConstruct
    \/ OtherClear

SpecEq == Init /\ [][NextEq]_vars

----------------------------------------------------------------------------
(* Properties *)

\* the exact sum seq[lo] + ... + seq[hi] of the logical array
RECURSIVE SeqSum(_, _, _)
SeqSum(seq, lo, hi) == IF lo > hi THEN 0 ELSE seq[lo] + SeqSum(seq, lo + 1, hi)

\* that sum as a value of T
TSum(seq, lo, hi) == Value(wrap(SeqSum(seq, lo, hi)))

Slots(t) == 0..(size(t) - 1)

Returned(op) == pc = "done" /\ call.op = op

\* C1: after construct(S), sum(i) is S[0] + ... + S[i] (as a value of T) for
\* every 0 <= i < n, and sum() is the sum of all of S (0 when n = 0).
PrefixSumAfterConstruct ==
    hist = "constructed" =>
        /\ size(tree) = size(S)
        /\ \A i \in Slots(tree) : sum_i(tree, i) = TSum(S, 0, i)
        /\ sum(tree) = TSum(S, 0, size(S) - 1)
        /\ size(tree) = 0 => sum(tree) = Value(0)
        /\ Returned("sum_i") /\ call.i \in Slots(tree) => ret = TSum(S, 0, call.i)
        /\ Returned("sum") => ret = TSum(S, 0, size(S) - 1)

\* sum(3) has returned S[0] + S[1] + S[2] + S[3], a non-zero value, on a
\* freshly constructed structure of four elements
PrefixSumAfterConstructSeen ==
    /\ hist = "constructed"
    /\ Returned("sum_i")
    /\ size(tree) = 4
    /\ call.i = 3
    /\ S[1] # S[2]
    /\ ret = Value(SeqSum(S, 0, 3))
    /\ ret.val # 0

\* C2: after construct(S) and no update, sum(i, j) is S[i] + ... + S[j] (as a
\* value of T) for all 0 <= i <= j < n, which is sum(j) - sum(i - 1) for i > 0
\* and sum(j) for i = 0.
RangeSumAfterConstruct ==
    hist = "constructed" =>
        /\ \A i \in Slots(tree), j \in Slots(tree) :
              i <= j =>
                /\ sum_ij(tree, i, j) = TSum(S, i, j)
                /\ i > 0 => sum_ij(tree, i, j).val
                              = wrap(sum_i(tree, j).val - sum_i(tree, i - 1).val)
                /\ i = 0 => sum_ij(tree, i, j) = sum_i(tree, j)
        /\ Returned("sum_ij") /\ call.i \in Slots(tree) /\ call.j \in Slots(tree)
              /\ call.i <= call.j
              => ret = TSum(S, call.i, call.j)

\* sum(i, j) with 0 < i < j has returned the non-zero sum S[i] + ... + S[j]
RangeSumAfterConstructSeen ==
    /\ hist = "constructed"
    /\ Returned("sum_ij")
    /\ 0 < call.i /\ call.i < call.j /\ call.j < size(tree)
    /\ S[0] # S[call.i]
    /\ ret = Value(SeqSum(S, call.i, call.j))
    /\ ret.val # 0

UpdateSucceeded == Returned("update") /\ ret = Bool(TRUE)

\* C3: when update(i, j, delta) has returned true, sum(i, j) has grown by
\* delta * (j - i + 1), sum(a, b) is as before for every valid range [a, b]
\* disjoint from [i, j], and sum(k) is as before for every k < i.
UpdateRangeEffect ==
    UpdateSucceeded =>
        /\ sum_ij(tree, call.i, call.j)
              = Value(wrap(sum_ij(pre, call.i, call.j).val
                             + call.v * (call.j - call.i + 1)))
        /\ \A a \in Slots(tree), b \in Slots(tree) :
              a <= b /\ (b < call.i \/ a > call.j)
                 => sum_ij(tree, a, b) = sum_ij(pre, a, b)
        /\ \A k \in Slots(tree) : k < call.i => sum_i(tree, k) = sum_i(pre, k)

UpdateRejectedArgs ==
    call.i < 0 \/ call.j + 1 >= size(pre)

\* C4 as stated: whenever i < 0, or j + 1 >= n, or i > j, update(i, j, delta)
\* returns false and leaves every slot and the size unchanged.
UpdateFailureReturnsFalse ==
    call.op = "update" /\ (UpdateRejectedArgs \/ call.i > call.j) =>
        /\ pc = "done"
        /\ ret = Bool(FALSE)
        /\ opEq(tree, pre)

\* C4 amended: with i <= j, whenever i < 0 or j + 1 >= n, update(i, j, delta)
\* returns false; with i > j it throws out_of_range; in both cases every slot
\* and the size are unchanged.
UpdateFailureFalseOrThrow ==
    /\ call.op = "update" /\ call.i <= call.j /\ UpdateRejectedArgs =>
          /\ pc = "done"
          /\ ret = Bool(FALSE)
          /\ opEq(tree, pre)
    /\ call.op = "update" /\ call.i > call.j =>
          /\ pc = "done"
          /\ ret = OutOfRange
          /\ opEq(tree, pre)

\* update(i, n - 1, delta) with a valid i has returned false on a structure of
\* at least three elements
UpdateFailureFalseSeen ==
    /\ Returned("update")
    /\ size(tree) >= 3
    /\ 0 < call.i /\ call.i <= call.j /\ call.j = size(tree) - 1
    /\ call.v # 0
    /\ ret = Bool(FALSE)
    /\ opEq(tree, pre)

UpdateRunning == pc \in {"upd_j", "upd_j_inc", "upd_i", "upd_i_inc"}

\* C5: every call of update finishes after finitely many loop steps.
UpdateTerminates == UpdateRunning ~> (pc \in {"done", "aborted"})

\* C6: sum(i) throws out_of_range for every i < 0 and every i >= n, returns a
\* value for every 0 <= i < n, sum() returns 0 when n = 0, and the buffer is
\* unchanged in all cases.
SumIndexChecked ==
    /\ Returned("sum_i") =>
          /\ (call.i < 0 \/ call.i >= size(pre)) => ret = OutOfRange
          /\ (0 <= call.i /\ call.i < size(pre)) => ret.kind = "value"
          /\ opEq(tree, pre)
    /\ Returned("sum") =>
          /\ ret.kind = "value"
          /\ size(pre) = 0 => ret = Value(0)
          /\ opEq(tree, pre)

\* sum(n) has thrown on a structure of n >= 1 elements
SumIndexCheckedSeen ==
    /\ Returned("sum_i")
    /\ size(tree) >= 1
    /\ call.i = size(tree)
    /\ ret = OutOfRange
    /\ opEq(tree, pre)

\* C7: sum(i, j) throws exactly when i > j or j is outside [0, n); for
\* i < 0 <= j < n it returns sum(j); the buffer is unchanged.
RangeSumThrowsExactly ==
    Returned("sum_ij") =>
        /\ ret.kind \in {"value", "out_of_range"}
        /\ ret = OutOfRange
              <=> (call.i > call.j \/ call.j < 0 \/ call.j >= size(pre))
        /\ (call.i < 0 /\ 0 <= call.j /\ call.j < size(pre))
              => ret = sum_i(pre, call.j)
        /\ opEq(tree, pre)

\* sum(-1, j) has returned the non-zero sum(j) on a structure of n >= 2 elements
RangeSumThrowsExactlySeen ==
    /\ Returned("sum_ij")
    /\ size(tree) >= 2
    /\ call.i < 0 /\ 0 < call.j /\ call.j < size(tree)
    /\ ret.kind = "value"
    /\ ret.val # 0
    /\ ret = sum_i(tree, call.j)

\* C8: two structures constructed from identical sequences compare equal,
\* whatever they held before; a cleared structure is unequal to every
\* structure of size > 0 and equal to every cleared or default-constructed one.
EqualityAfterConstructAndClear ==
    /\ (hist = "constructed" /\ otherHist = "constructed" /\ S = otherS)
          => opEq(tree, other) /\ ~opNeq(tree, other)
    /\ (hist = "cleared" /\ size(other) > 0)
          => ~opEq(tree, other) /\ opNeq(tree, other)
    /\ (otherHist = "cleared" /\ size(tree) > 0)
          => ~opEq(other, tree) /\ opNeq(other, tree)
    /\ (hist = "cleared" /\ otherHist \in {"cleared", "default"})
          => opEq(tree, other) /\ ~opNeq(tree, other)
    /\ (otherHist = "cleared" /\ hist \in {"cleared", "default"})
          => opEq(other, tree) /\ ~opNeq(other, tree)

\* construct has just returned on `tree`, the other structure was constructed
\* from the same three-element sequence, and they compare equal
EqualityAfterConstructSeen ==
    /\ Returned("construct")
    /\ hist = "constructed" /\ otherHist = "constructed"
    /\ S = otherS
    /\ size(S) = 3 /\ S[0] # 0 /\ S[1] # 0
    /\ opEq(tree, other)

\* C9: when update(i, j, delta) has returned true, sum(k) is as before for
\* every valid k >= j + 1 and has grown by delta for every i <= k < j + 1.
UpdatePrefixEffect ==
    UpdateSucceeded =>
        \A k \in Slots(tree) :
            /\ k >= call.j + 1 => sum_i(tree, k) = sum_i(pre, k)
            /\ (call.i <= k /\ k < call.j + 1)
                  => sum_i(tree, k) = Value(wrap(sum_i(pre, k).val + call.v))

\* C10: every slot the two walks of update read or write lies in [0, n - 1]
\* and the size is the same after the call as before.
UpdateWalkInBuffer ==
    call.op = "update" =>
        /\ touched \subseteq Slots(tree)
        /\ size(tree) = size(pre)

====
